---- MODULE Spec2Model ----
(***************************************************************************)
(* Omnara webhook server (src/app.py): a FastAPI application with five     *)
(* routes.  The model keeps the requests in flight, the wall clock and the *)
(* configuration read at import time; each handler is an operator          *)
(* translated from its Python body, and each action runs one handler (or   *)
(* one segment of it, up to its await) on one request.                     *)
(*                                                                         *)
(* Values.  A JSON / Python value is a tagged record:                      *)
(*   None -> [t |-> "null"]        bool -> [t |-> "bool", b |-> ...]       *)
(*   int  -> [t |-> "num", n |-> ] str  -> [t |-> "str", s |-> ...]        *)
(*   list -> [t |-> "list", items |-> <<...>>]                             *)
(*   dict -> [t |-> "obj", m |-> function from keys to values]             *)
(* Text produced by strftime / isoformat is a sequence of one-character    *)
(* strings, so that its shape (digits, separators, length) can be read.    *)
(***************************************************************************)
EXTENDS Integers, Sequences, FiniteSets, TLC

VARIABLES environ, API_KEY, now, inflight

vars == <<environ, API_KEY, now, inflight>>

(* Number of requests the server holds at once in the concurrent runs. *)
MaxInflight == 2

-----------------------------------------------------------------------------
(* Python / JSON values *)

JNull == [t |-> "null"]

JBool(b) == [t |-> "bool", b |-> b]

JNum(n) == [t |-> "num", n |-> n]

JStr(s) == [t |-> "str", s |-> s]

JList(items) == [t |-> "list", items |-> items]

JObj(m) == [t |-> "obj", m |-> m]

EmptyDict == JObj(<<>>)

(* isinstance(v, dict): only a dict has .get *)
IsDict(v) == v.t = "obj"

(* v == "<s>" for a Python str literal s *)
EqStr(v, s) == v.t = "str" /\ v.s = s

(* bool(v): None, False, 0, "", [] and {} are falsy *)
Truthy(v) ==
    CASE v.t = "null" -> FALSE
      [] v.t = "bool" -> v.b
      [] v.t = "num"  -> v.n # 0
      [] v.t = "str"  -> v.s # ""
      [] v.t = "list" -> Len(v.items) # 0
      [] v.t = "obj"  -> DOMAIN v.m # {}

(* type(v).__name__ *)
TypeName(v) ==
    CASE v.t = "null" -> "NoneType"
      [] v.t = "bool" -> "bool"
      [] v.t = "num"  -> "int"
      [] v.t = "str"  -> "str"
      [] v.t = "list" -> "list"
      [] v.t = "obj"  -> "dict"

DigitStr(d) == <<"0", "1", "2", "3", "4", "5", "6", "7", "8", "9">>[d + 1]

RECURSIVE NatStr(_)
NatStr(n) == IF n < 10 THEN DigitStr(n) ELSE NatStr(n \div 10) \o DigitStr(n % 10)

RECURSIVE PyRepr(_)
RECURSIVE JoinRepr(_)
(* ", ".join(repr(x) for x in items) *)
JoinRepr(items) ==
    IF Len(items) = 0 THEN ""
    ELSE IF Len(items) = 1 THEN PyRepr(items[1])
    ELSE PyRepr(items[1]) \o ", " \o JoinRepr(Tail(items))

(* repr(v); dicts are rendered only when empty (no input holds another as an action) *)
PyRepr(v) ==
    CASE v.t = "null" -> "None"
      [] v.t = "bool" -> IF v.b THEN "True" ELSE "False"
      [] v.t = "num"  -> IF v.n < 0 THEN "-" \o NatStr(-v.n) ELSE NatStr(v.n)
      [] v.t = "str"  -> "'" \o v.s \o "'"
      [] v.t = "list" -> "[" \o JoinRepr(v.items) \o "]"
      [] v.t = "obj"  -> "{}"

(* str(v), as an f-string formats it: a str is itself, anything else its repr *)
PyStr(v) == IF v.t = "str" THEN v.s ELSE PyRepr(v)

(* d.get(k, default) on a dict d *)
dict_get(d, k, default) == IF k \in DOMAIN d.m THEN d.m[k] ELSE default

(* the text of the AttributeError raised by v.get on a value without .get *)
AttributeErrorText(v) == "'" \o TypeName(v) \o "' object has no attribute 'get'"

(* a call either returns a value or raises an exception with a text *)
Return(v) == [ok |-> TRUE, val |-> v]

Raise(text) == [ok |-> FALSE, text |-> text]

-----------------------------------------------------------------------------
(* Wall clock: an instant is [sec |-> seconds since 1970-01-01T00:00:00Z,    *)
(* usec |-> microseconds within the second], what datetime.utcnow() reads.  *)

(* days since 1970-01-01 -> [y, m, d] in the proleptic Gregorian calendar *)
CivilFromDays(days) ==
    LET z   == days + 719468
        era == z \div 146097
        doe == z - era * 146097
        yoe == (doe - doe \div 1460 + doe \div 36524 - doe \div 146096) \div 365
        doy == doe - (365 * yoe + yoe \div 4 - yoe \div 100)
        mp  == (5 * doy + 2) \div 153
        mm  == IF mp < 10 THEN mp + 3 ELSE mp - 9
    IN  [y |-> yoe + era * 400 + (IF mm <= 2 THEN 1 ELSE 0),
         m |-> mm,
         d |-> doy - (153 * mp + 2) \div 5 + 1]

(* datetime.utcnow() at instant t: the broken-down UTC time *)
utcnow(t) ==
    LET date == CivilFromDays(t.sec \div 86400)
        rem  == t.sec % 86400
    IN  [year |-> date.y, month |-> date.m, day |-> date.d,
         hour |-> rem \div 3600, minute |-> (rem % 3600) \div 60,
         second |-> rem % 60, microsecond |-> t.usec]

Chars2(n) == <<DigitStr((n \div 10) % 10), DigitStr(n % 10)>>

Chars4(n) == Chars2(n \div 100) \o Chars2(n % 100)

Chars6(n) == Chars2(n \div 10000) \o Chars4(n % 10000)

(* dt.strftime('%Y%m%d_%H%M%S') *)
strftime_id(dt) ==
    Chars4(dt.year) \o Chars2(dt.month) \o Chars2(dt.day) \o <<"_">>
        \o Chars2(dt.hour) \o Chars2(dt.minute) \o Chars2(dt.second)

(* dt.isoformat(): the fraction is printed only when microsecond is not 0 *)
isoformat(dt) ==
    Chars4(dt.year) \o <<"-">> \o Chars2(dt.month) \o <<"-">> \o Chars2(dt.day)
        \o <<"T">> \o Chars2(dt.hour) \o <<":">> \o Chars2(dt.minute)
        \o <<":">> \o Chars2(dt.second)
        \o (IF dt.microsecond = 0 THEN <<>> ELSE <<".">> \o Chars6(dt.microsecond))

-----------------------------------------------------------------------------
(* The handlers of src/app.py *)

(* os.environ.get(name, default) *)
os_environ_get(env, name, default) == IF name \in DOMAIN env THEN env[name] ELSE default

DefaultApiKey == "B7hVKeNKPcVIL0lk"

(* API_KEY = os.environ.get("OMNARA_API_KEY", "B7hVKeNKPcVIL0lk") *)
load_api_key(env) == os_environ_get(env, "OMNARA_API_KEY", DefaultApiKey)

(* GET / *)
root ==
    [code |-> 200,
     body |-> [service |-> "Omnara Webhook Server", status |-> "online",
               version |-> "1.0.0",
               endpoints |-> [health |-> "/health", webhook |-> "/webhook",
                              agents |-> "/api/agents"]]]

(* GET /health *)
health_check(t) ==
    [code |-> 200,
     body |-> [status |-> "healthy", timestamp |-> isoformat(utcnow(t))]]

(* create_agent answering with an empty config whatever was sent *)
create_agent_no_config(data, t) ==
    Return([status |-> "success",
            agent_id |-> <<"a", "g", "e", "n", "t", "_">> \o strftime_id(utcnow(t)),
            message |-> "Agent created successfully", config |-> EmptyDict])

(* create_agent numbering its agents by the requests answered so far *)
create_agent_counted(data, t) ==
    Return([status |-> "success",
            agent_id |-> <<"a", "g", "e", "n", "t", "_">> \o strftime_id(utcnow(t))
                            \o Chars2(Cardinality({s \in DOMAIN inflight : inflight[s].pc = "done"})),
            message |-> "Agent created successfully",
            config |-> IF ~Truthy(data) THEN EmptyDict ELSE data])

(* create_agent formatting the time with '%Y%m%d_%H%M', the seconds left out *)
create_agent_minute(data, t) ==
    LET dt == utcnow(t)
    IN  Return([status |-> "success",
                agent_id |-> <<"a", "g", "e", "n", "t", "_">> \o Chars4(dt.year) \o Chars2(dt.month)
                                \o Chars2(dt.day) \o <<"_">> \o Chars2(dt.hour) \o Chars2(dt.minute),
                message |-> "Agent created successfully",
                config |-> IF ~Truthy(data) THEN EmptyDict ELSE data])

(* create_agent(data): the body shared by POST /api/agents and the webhook *)
create_agent(data, t) ==
    LET config   == IF ~Truthy(data) THEN EmptyDict ELSE data
        agent_id == <<"a", "g", "e", "n", "t", "_">> \o strftime_id(utcnow(t))
    IN  Return([status |-> "success", agent_id |-> agent_id,
                message |-> "Agent created successfully", config |-> config])

(* list_agents appending the agents created by the requests answered so far *)
list_agents_persisting ==
    LET made == {s \in DOMAIN inflight :
                    inflight[s].pc = "done" /\ inflight[s].ran = "create_agent"}
    IN  [code |-> 200,
         body |-> [status |-> "success",
                   agents |-> << [id |-> "agent_1", status |-> "running", created |-> "2024-01-01"],
                                 [id |-> "agent_2", status |-> "stopped", created |-> "2024-01-02"] >>
                              \o (IF made = {} THEN <<>>
                                  ELSE << [id |-> inflight[CHOOSE s \in made : TRUE].resp.body.agent_id,
                                           status |-> "running", created |-> "2024-12-31"] >>)]]

(* GET /api/agents *)
list_agents ==
    [code |-> 200,
     body |-> [status |-> "success",
               agents |-> << [id |-> "agent_1", status |-> "running", created |-> "2024-01-01"],
                             [id |-> "agent_2", status |-> "stopped", created |-> "2024-01-02"] >>]]

(* handle_deploy taking the caller's fields only when both are given *)
handle_deploy_both_or_none(data) ==
    IF ~IsDict(data) THEN Raise(AttributeErrorText(data))
    ELSE IF {"environment", "version"} \subseteq DOMAIN data.m
         THEN Return([status |-> "success", message |-> "Deployment initiated",
                      environment |-> data.m["environment"], version |-> data.m["version"]])
    ELSE Return([status |-> "success", message |-> "Deployment initiated",
                 environment |-> JStr("production"), version |-> JStr("latest")])

(* handle_deploy reading a data that is no mapping as the empty mapping *)
handle_deploy_lenient(data) ==
    LET d == IF IsDict(data) THEN data ELSE EmptyDict
    IN  Return([status |-> "success", message |-> "Deployment initiated",
                environment |-> dict_get(d, "environment", JStr("production")),
                version |-> dict_get(d, "version", JStr("latest"))])

(* handle_deploy(data) *)
handle_deploy(data) ==
    IF ~IsDict(data) THEN Raise(AttributeErrorText(data))
    ELSE Return([status |-> "success", message |-> "Deployment initiated",
                 environment |-> dict_get(data, "environment", JStr("production")),
                 version |-> dict_get(data, "version", JStr("latest"))])

(* handle_code_review defaulting the branch to "master" *)
handle_code_review_master(data) ==
    IF ~IsDict(data) THEN Raise(AttributeErrorText(data))
    ELSE Return([status |-> "success", message |-> "Code review initiated",
                 repository |-> dict_get(data, "repository", JStr("unknown")),
                 branch |-> dict_get(data, "branch", JStr("master"))])

(* handle_code_review(data) *)
handle_code_review(data) ==
    IF ~IsDict(data) THEN Raise(AttributeErrorText(data))
    ELSE Return([status |-> "success", message |-> "Code review initiated",
                 repository |-> dict_get(data, "repository", JStr("unknown")),
                 branch |-> dict_get(data, "branch", JStr("main"))])

(* the key compared only when the header is present *)
key_mismatch_when_present(x_api_key, key) == x_api_key.t = "str" /\ x_api_key.s # key

(* x_api_key != API_KEY, x_api_key being None when the header is absent *)
key_mismatch(x_api_key, key) == ~EqStr(x_api_key, key)

(* raise HTTPException(status_code=401, detail="Invalid API key") *)
Unauthorized == [code |-> 401, detail |-> "Invalid API key"]

(* request.json() answering {} for a body it cannot parse *)
request_json_lenient(body) ==
    IF body.parse = "ok" THEN Return(body.value) ELSE Return(EmptyDict)

(* await request.json(): the parsed body, or the parser's exception *)
request_json(body) ==
    IF body.parse = "ok" THEN Return(body.value) ELSE Raise(body.text)

(* the echo printing the default in place of the action *)
echo_action_unknown(action) ==
    Return([status |-> "success", message |-> "Action 'unknown' received"])

(* the else branch of the dispatch: the echo of the action *)
echo_action(action) ==
    Return([status |-> "success",
            message |-> "Action '" \o PyStr(action) \o "' received"])

(* the if / elif chain on action; ran names the branch taken *)
dispatch(action, data, t) ==
    IF EqStr(action, "create_agent") THEN [ran |-> "create_agent", result |-> create_agent(data, t)]
    ELSE IF EqStr(action, "deploy") THEN [ran |-> "handle_deploy", result |-> handle_deploy(data)]
    ELSE IF EqStr(action, "code_review")
         THEN [ran |-> "handle_code_review", result |-> handle_code_review(data)]
    ELSE [ran |-> "echo", result |-> echo_action(action)]

(* the body of the try block: parse, read action and data, dispatch *)
webhook_try(body, t) ==
    LET parsed == request_json(body)
    IN  IF ~parsed.ok THEN [ran |-> "none", result |-> parsed]
        ELSE IF ~IsDict(parsed.val)
             THEN [ran |-> "none", result |-> Raise(AttributeErrorText(parsed.val))]
        ELSE dispatch(dict_get(parsed.val, "action", JStr("unknown")),
                      dict_get(parsed.val, "data", EmptyDict), t)

(* a returned value is the 200 response; except Exception -> HTTPException(500, str(e)) *)
catch_all(result) ==
    IF result.ok THEN [code |-> 200, body |-> result.val]
    ELSE [code |-> 500, detail |-> result.text]

-----------------------------------------------------------------------------
(* Inputs: configurations, instants and requests *)

(* os.environ at import time: OMNARA_API_KEY unset, or set *)
Environments == {<<>>, [OMNARA_API_KEY |-> "envkey"]}

(* 2024-12-31T23:59:58.999999Z, 23:59:59 (no fraction), 23:59:59.000001 and *)
(* 2025-01-01T00:00:00Z: two seconds of one minute, two instants of one     *)
(* second, and a change of every date field                                 *)
Instants ==
    {[sec |-> 1735689598, usec |-> 999999], [sec |-> 1735689599, usec |-> 0],
     [sec |-> 1735689599, usec |-> 1], [sec |-> 1735689600, usec |-> 0]}

Later(a, b) == a.sec > b.sec \/ (a.sec = b.sec /\ a.usec > b.usec)

(* a key that a JSON object does not hold *)
Absent == [t |-> "absent"]

(* the JSON object with "action": a and "data": d, each left out when Absent *)
MkPayload(a, d) ==
    JObj([k \in {x \in {"action", "data"} : (x = "action" /\ a # Absent) \/ (x = "data" /\ d # Absent)}
            |-> IF k = "action" THEN a ELSE d])

(* X-API-Key: absent (None), the default key, the environment's key, a near miss *)
Headers == {JNull, JStr(DefaultApiKey), JStr("envkey"), JStr("b7hvkenkpcvil0lk")}

NamedActions == {JStr("create_agent"), JStr("deploy"), JStr("code_review")}

OtherActions ==
    {Absent, JStr("ping"), JStr("Deploy"), JStr("unknown"), JNull, JBool(TRUE), JNum(7),
     JList(<<>>), JList(<<JStr("deploy")>>)}

DataDicts ==
    {EmptyDict,
     JObj([name |-> JStr("x")]),
     JObj([environment |-> JStr("staging"), version |-> JStr("2.1")]),
     JObj([environment |-> JStr("staging")]),
     JObj([version |-> JStr("2.1")]),
     JObj([environment |-> JNull, version |-> JNum(2)]),
     JObj([repository |-> JStr("r"), branch |-> JStr("dev")]),
     JObj([repository |-> JStr("r")]),
     JObj([branch |-> JStr("dev")])}

FalsyData == {JNull, JBool(FALSE), JNum(0), JStr(""), JList(<<>>)}

TruthyNonDicts == {JBool(TRUE), JNum(7), JStr("abc"), JList(<<JNum(1)>>)}

DataValues == {Absent} \cup DataDicts \cup FalsyData \cup TruthyNonDicts

(* well-formed JSON that is not an object *)
NonObjectJson == {JNull, JBool(TRUE), JNum(7), JStr("deploy"), JList(<<>>)}

(* bodies json.loads rejects: the empty body, and "{bad" *)
MalformedBodies ==
    {[parse |-> "error", text |-> "Expecting value: line 1 column 1 (char 0)"],
     [parse |-> "error",
      text |-> "Expecting property name enclosed in double quotes: line 1 column 2 (char 1)"]}

WebhookBodies ==
    MalformedBodies
        \cup {[parse |-> "ok", value |-> v] : v \in NonObjectJson}
        \cup {[parse |-> "ok", value |-> MkPayload(a, d)] :
                 a \in NamedActions \cup OtherActions, d \in DataValues}

WebhookRequests ==
    {[route |-> "POST /webhook", key |-> h, body |-> b] : h \in Headers, b \in WebhookBodies}

(* POST /api/agents takes a JSON object as its body, or no body at all *)
CreateRequests ==
    {[route |-> "POST /api/agents", body |-> [parse |-> "none"]]}
        \cup {[route |-> "POST /api/agents", body |-> [parse |-> "ok", value |-> d]] : d \in DataDicts}

GetRequests == {[route |-> "GET /"], [route |-> "GET /health"], [route |-> "GET /api/agents"]}

Requests == WebhookRequests \cup CreateRequests \cup GetRequests

(* the requests of the concurrent runs: every route, both creation paths *)
CoreRequests ==
    GetRequests
        \cup {[route |-> "POST /api/agents", body |-> [parse |-> "ok", value |-> JObj([name |-> JStr("x")])]]}
        \cup {[route |-> "POST /webhook", key |-> h,
               body |-> [parse |-> "ok", value |-> MkPayload(JStr("create_agent"), JObj([name |-> JStr("x")]))]] :
                 h \in {JNull, JStr(DefaultApiKey)}}
        \cup {[route |-> "POST /webhook", key |-> JStr(DefaultApiKey),
               body |-> [parse |-> "ok", value |-> MkPayload(JStr("ping"), Absent)]]}

Slots == 1 .. MaxInflight

Idle == [pc |-> "idle"]

(* a request answered with resp at instant at; ran is the dispatch branch taken *)
Done(req, at, resp, parsed, ran) ==
    [pc |-> "done", req |-> req, at |-> at, resp |-> resp, parsed |-> parsed, ran |-> ran]

-----------------------------------------------------------------------------
(* Actions *)

Init ==
    /\ environ \in Environments
    /\ API_KEY = load_api_key(environ)
    /\ now \in Instants
    /\ inflight = [s \in Slots |-> Idle]

(* the wall clock advances *)
Tick ==
    /\ \E t \in Instants : Later(t, now) /\ now' = t
    /\ UNCHANGED <<environ, API_KEY, inflight>>

(* a request arrives and is routed *)
Receive(s, r) ==
    /\ inflight[s].pc = "idle"
    /\ inflight' = [inflight EXCEPT ![s] = [pc |-> "recv", req |-> r]]
    /\ UNCHANGED <<environ, API_KEY, now>>

Routed(s, route) == inflight[s].pc = "recv" /\ inflight[s].req.route = route

Finish(s, resp, parsed, ran) ==
    /\ inflight' = [inflight EXCEPT ![s] = Done(inflight[s].req, now, resp, parsed, ran)]
    /\ UNCHANGED <<environ, API_KEY, now>>

ServeRoot(s) == Routed(s, "GET /") /\ Finish(s, root, FALSE, "none")

ServeHealth(s) == Routed(s, "GET /health") /\ Finish(s, health_check(now), FALSE, "none")

ServeListAgents(s) == Routed(s, "GET /api/agents") /\ Finish(s, list_agents, FALSE, "none")

(* POST /api/agents: data is the JSON object of the body, None without a body *)
ServeCreateAgent(s) ==
    /\ Routed(s, "POST /api/agents")
    /\ LET body == inflight[s].req.body
           data == IF body.parse = "ok" THEN body.value ELSE JNull
       IN  Finish(s, catch_all(create_agent(data, now)), body.parse = "ok", "create_agent")

(* webhook_handler up to its await: the key check *)
WebhookVerify(s) ==
    /\ Routed(s, "POST /webhook")
    /\ IF key_mismatch(inflight[s].req.key, API_KEY)
       THEN Finish(s, Unauthorized, FALSE, "none")
       ELSE /\ inflight' = [inflight EXCEPT ![s].pc = "body"]
            /\ UNCHANGED <<environ, API_KEY, now>>

(* webhook_handler after request.json() resumes: the try block and its except *)
WebhookProcess(s) ==
    /\ inflight[s].pc = "body"
    /\ LET out == webhook_try(inflight[s].req.body, now)
       IN  Finish(s, catch_all(out.result), TRUE, out.ran)

(* the response is sent and the request forgotten *)
Deliver(s) ==
    /\ inflight[s].pc = "done"
    /\ inflight' = [inflight EXCEPT ![s] = Idle]
    /\ UNCHANGED <<environ, API_KEY, now>>

Serve(s) ==
    \/ ServeRoot(s)
    \/ ServeHealth(s)
    \/ ServeListAgents(s)
    \/ ServeCreateAgent(s)
    \/ WebhookVerify(s)
    \/ WebhookProcess(s)
    \/ Deliver(s)

(* one request at a time, every input *)
Next ==
    \/ Tick
    \/ \E r \in Requests : Receive(1, r)
    \/ Serve(1)

Spec == Init /\ [][Next]_vars

(* up to MaxInflight requests interleaved *)
NextConc ==
    \/ Tick
    \/ \E s \in Slots : \E r \in CoreRequests : Receive(s, r)
    \/ \E s \in Slots : Serve(s)

SpecConc == Init /\ [][NextConc]_vars

-----------------------------------------------------------------------------
(* Reading the answered requests *)

Answered == {s \in DOMAIN inflight : inflight[s].pc = "done"}

AnsweredOn(route) == {s \in Answered : inflight[s].req.route = route}

(* the request carries X-API-Key and it is exactly the configured key *)
KeyIsExact(r) == r.key.t = "str" /\ r.key.s = API_KEY

(* answered webhook calls with the right key whose body parsed to a JSON object *)
ObjectCalls ==
    {s \in AnsweredOn("POST /webhook") :
        /\ KeyIsExact(inflight[s].req)
        /\ inflight[s].req.body.parse = "ok"
        /\ inflight[s].req.body.value.t = "obj"}

SentAction(s) ==
    LET m == inflight[s].req.body.value.m IN IF "action" \in DOMAIN m THEN m["action"] ELSE Absent

SentData(s) ==
    LET m == inflight[s].req.body.value.m IN IF "data" \in DOMAIN m THEN m["data"] ELSE Absent

CallsWithAction(name) == {s \in ObjectCalls : SentAction(s) = JStr(name)}

IsDigit(c) == c \in {"0", "1", "2", "3", "4", "5", "6", "7", "8", "9"}

AllDigits(text, from, to) == \A i \in from .. to : IsDigit(text[i])

-----------------------------------------------------------------------------
(* C1: a webhook request whose X-API-Key is absent or differs from the      *)
(* configured key is answered 401 "Invalid API key" whatever its body; the  *)
(* body is not parsed, no dispatch branch runs, and the request never gets  *)
(* past the key check.                                                      *)
C1_Unauthorized ==
    \A s \in DOMAIN inflight :
        (inflight[s].pc # "idle" /\ inflight[s].req.route = "POST /webhook"
            /\ ~KeyIsExact(inflight[s].req))
        => /\ inflight[s].pc # "body"
           /\ inflight[s].pc = "done" =>
                /\ inflight[s].resp = [code |-> 401, detail |-> "Invalid API key"]
                /\ ~inflight[s].parsed
                /\ inflight[s].ran = "none"

(* the default key is refused once the environment configures another one *)
C1_Witness ==
    \E s \in AnsweredOn("POST /webhook") :
        /\ inflight[s].resp.code = 401
        /\ API_KEY = "envkey"
        /\ inflight[s].req.key = JStr(DefaultApiKey)
        /\ inflight[s].req.body.parse = "ok"

(* an absent header on a malformed body *)
C1_WitnessAbsent ==
    \E s \in AnsweredOn("POST /webhook") :
        /\ inflight[s].resp.code = 401
        /\ inflight[s].req.key = JNull
        /\ inflight[s].req.body.parse = "error"

(* what Python prints for the non-string actions of the inputs *)
PythonText(a) ==
    CASE a = JNull -> "None"
      [] a = JBool(TRUE) -> "True"
      [] a = JNum(7) -> "7"
      [] a = JList(<<>>) -> "[]"
      [] a = JList(<<JStr("deploy")>>) -> "['deploy']"

(* the JSON literal of the non-string actions of the inputs *)
JsonText(a) ==
    CASE a = JNull -> "null"
      [] a = JBool(TRUE) -> "true"
      [] a = JNum(7) -> "7"
      [] a = JList(<<>>) -> "[]"
      [] a = JList(<<JStr("deploy")>>) -> "[\"deploy\"]"

EchoCalls == {s \in ObjectCalls : SentAction(s) \notin NamedActions}

(* C2 as stated: the echo reads action '<value>' received, <value> the      *)
(* literal action given and "unknown" when absent.                          *)
C2_EchoAsStated ==
    \A s \in EchoCalls :
        LET a == SentAction(s)
            value == IF a = Absent THEN "unknown" ELSE IF a.t = "str" THEN a.s ELSE JsonText(a)
        IN  /\ inflight[s].resp = [code |-> 200,
                                   body |-> [status |-> "success",
                                             message |-> "action '" \o value \o "' received"]]
            /\ inflight[s].ran = "echo"

(* C2 amended: with a valid key and an object body whose action is absent or *)
(* not one of the three names, the answer is 200, status "success" and the  *)
(* message Action '<value>' received (capital A), <value> being the action  *)
(* string itself, "unknown" when absent, and Python's str() of a non-string *)
(* action (None, True, 7, [], ['deploy']); no named handler runs.           *)
C2_Echo ==
    \A s \in EchoCalls :
        LET a == SentAction(s)
            value == IF a = Absent THEN "unknown" ELSE IF a.t = "str" THEN a.s ELSE PythonText(a)
        IN  /\ inflight[s].resp = [code |-> 200,
                                   body |-> [status |-> "success",
                                             message |-> "Action '" \o value \o "' received"]]
            /\ inflight[s].ran = "echo"

C2_Witness ==
    \E s \in EchoCalls : SentAction(s) = JStr("Deploy") /\ inflight[s].resp.code = 200

(* the action left out *)
C2_WitnessAbsent ==
    \E s \in EchoCalls : SentAction(s) = Absent /\ inflight[s].resp.code = 200

CreateCalls ==
    {s \in CallsWithAction("create_agent") : SentData(s) = Absent \/ SentData(s).t = "obj"}

CreateEnvelope(s) ==
    /\ inflight[s].resp.code = 200
    /\ DOMAIN inflight[s].resp.body = {"status", "agent_id", "message", "config"}
    /\ inflight[s].resp.body.status = "success"
    /\ inflight[s].resp.body.message = "Agent created successfully"
    /\ inflight[s].resp.body.config = (IF SentData(s) = Absent THEN JObj(<<>>) ELSE SentData(s))
    /\ SubSeq(inflight[s].resp.body.agent_id, 1, 6) = <<"a", "g", "e", "n", "t", "_">>

(* C3 as stated: agent_id is agent_ followed by 14 digits.                  *)
C3_CreateAsStated ==
    \A s \in CreateCalls :
        /\ CreateEnvelope(s)
        /\ Len(inflight[s].resp.body.agent_id) = 20
        /\ AllDigits(inflight[s].resp.body.agent_id, 7, 20)

(* C3 amended: with a valid key and action create_agent the answer is 200,  *)
(* status "success", message "Agent created successfully", config the data  *)
(* mapping sent (the empty mapping when absent), and agent_id is agent_     *)
(* followed by 8 digits, an underscore and 6 digits (YYYYMMDD_HHMMSS).      *)
C3_Create ==
    \A s \in CreateCalls :
        /\ CreateEnvelope(s)
        /\ Len(inflight[s].resp.body.agent_id) = 21
        /\ AllDigits(inflight[s].resp.body.agent_id, 7, 14)
        /\ inflight[s].resp.body.agent_id[15] = "_"
        /\ AllDigits(inflight[s].resp.body.agent_id, 16, 21)

C3_Witness ==
    \E s \in CreateCalls :
        /\ SentData(s) = JObj([name |-> JStr("x")])
        /\ inflight[s].resp.body.config = JObj([name |-> JStr("x")])

(* data left out *)
C3_WitnessAbsent ==
    \E s \in CreateCalls : SentData(s) = Absent /\ inflight[s].resp.code = 200

DeployCalls == {s \in CallsWithAction("deploy") : SentData(s) # Absent /\ SentData(s).t = "obj"}

(* C4: with a valid key, action deploy and a mapping data the answer is     *)
(* exactly {status: success, message: Deployment initiated, environment: E, *)
(* version: V}, E = data.environment if present else "production", V =      *)
(* data.version if present else "latest", each default on its own.          *)
C4_Deploy ==
    \A s \in DeployCalls :
        LET m == SentData(s).m
        IN  inflight[s].resp =
                [code |-> 200,
                 body |-> [status |-> "success", message |-> "Deployment initiated",
                           environment |-> IF "environment" \in DOMAIN m THEN m["environment"]
                                           ELSE JStr("production"),
                           version |-> IF "version" \in DOMAIN m THEN m["version"]
                                       ELSE JStr("latest")]]

(* one field given and the other defaulted *)
C4_Witness ==
    \E s \in DeployCalls :
        /\ DOMAIN SentData(s).m = {"environment"}
        /\ inflight[s].resp.body.environment = JStr("staging")
        /\ inflight[s].resp.body.version = JStr("latest")

ReviewCalls ==
    {s \in CallsWithAction("code_review") : SentData(s) # Absent /\ SentData(s).t = "obj"}

(* C5: with a valid key, action code_review and a mapping data the answer   *)
(* is exactly {status: success, message: Code review initiated, repository: *)
(* R, branch: B}, R = data.repository if present else "unknown", B =        *)
(* data.branch if present else "main".                                      *)
C5_CodeReview ==
    \A s \in ReviewCalls :
        LET m == SentData(s).m
        IN  inflight[s].resp =
                [code |-> 200,
                 body |-> [status |-> "success", message |-> "Code review initiated",
                           repository |-> IF "repository" \in DOMAIN m THEN m["repository"]
                                          ELSE JStr("unknown"),
                           branch |-> IF "branch" \in DOMAIN m THEN m["branch"]
                                      ELSE JStr("main")]]

C5_Witness ==
    \E s \in ReviewCalls :
        /\ DOMAIN SentData(s).m = {"repository"}
        /\ inflight[s].resp.body.repository = JStr("r")
        /\ inflight[s].resp.body.branch = JStr("main")

(* answered requests that created an agent, by either route *)
Created == {s \in Answered : inflight[s].ran = "create_agent" /\ inflight[s].resp.code = 200}

(* C6: whatever was answered before, agents created included, GET           *)
(* /api/agents answers 200 with status "success" and exactly the two fixed  *)
(* descriptors agent_1 and agent_2, in that order.                          *)
C6_FixedList ==
    \A s \in AnsweredOn("GET /api/agents") :
        inflight[s].resp =
            [code |-> 200,
             body |-> [status |-> "success",
                       agents |-> << [id |-> "agent_1", status |-> "running", created |-> "2024-01-01"],
                                     [id |-> "agent_2", status |-> "stopped", created |-> "2024-01-02"] >>]]

(* the list is answered after an agent was created *)
C6_Witness ==
    \E s \in AnsweredOn("GET /api/agents") :
        \E c \in Created : Later(inflight[s].at, inflight[c].at)

(* C7: with a valid key and a body that is not JSON the answer is 500 and   *)
(* its detail is the text of the parse exception; never 200 nor 401.        *)
C7_Malformed ==
    \A s \in AnsweredOn("POST /webhook") :
        (KeyIsExact(inflight[s].req) /\ inflight[s].req.body.parse = "error")
        => /\ inflight[s].resp = [code |-> 500, detail |-> inflight[s].req.body.text]
           /\ inflight[s].ran = "none"

C7_Witness ==
    \E s \in AnsweredOn("POST /webhook") :
        /\ KeyIsExact(inflight[s].req)
        /\ inflight[s].req.body.parse = "error"
        /\ inflight[s].resp.code = 500

(* C8 as stated: the same request answered in the same clock second gets    *)
(* the same response, whatever else was answered; the key stays as loaded.  *)
C8_PureAsStated ==
    /\ API_KEY = load_api_key(environ)
    /\ \A s, u \in Answered :
          (inflight[s].req = inflight[u].req /\ inflight[s].at.sec = inflight[u].at.sec)
          => inflight[s].resp = inflight[u].resp

(* C8 amended: the same request answered at the same clock reading (second  *)
(* and microsecond) gets the same response whatever else was answered or is *)
(* in flight; on every route but GET /health the same second is enough; the *)
(* key stays as loaded at startup.                                          *)
C8_Pure ==
    /\ API_KEY = load_api_key(environ)
    /\ \A s, u \in Answered :
          (/\ inflight[s].req = inflight[u].req
           /\ inflight[s].at.sec = inflight[u].at.sec
           /\ (inflight[s].req.route = "GET /health" => inflight[s].at = inflight[u].at))
          => inflight[s].resp = inflight[u].resp

(* two answers to one creation request in one second, and two health answers *)
(* at one instant                                                            *)
C8_Witness ==
    \E s, u \in Answered :
        /\ s # u
        /\ inflight[s].req = inflight[u].req
        /\ inflight[s].at = inflight[u].at
        /\ inflight[s].req.route \in {"POST /webhook", "GET /health"}
        /\ inflight[s].resp.code = 200

(* C9: two created agents have the same agent_id exactly when they were     *)
(* created in the same UTC second, by either route and in any interleaving. *)
C9_IdPerSecond ==
    \A s, u \in Created :
        (inflight[s].resp.body.agent_id = inflight[u].resp.body.agent_id)
            <=> (inflight[s].at.sec = inflight[u].at.sec)

(* a duplicate id: one agent by the webhook and one by POST /api/agents *)
C9_Witness ==
    \E s, u \in Created :
        /\ inflight[s].req.route = "POST /webhook"
        /\ inflight[u].req.route = "POST /api/agents"
        /\ inflight[s].at # inflight[u].at
        /\ inflight[s].resp.body.agent_id = inflight[u].resp.body.agent_id

(* C10: with a valid key, a JSON body that is not an object is answered     *)
(* 500; deploy and code_review with a data that is present and not a        *)
(* mapping are answered 500; create_agent with a falsy data is answered 200 *)
(* with config the empty mapping.                                           *)
C10_WrongTypes ==
    /\ \A s \in AnsweredOn("POST /webhook") :
          (/\ KeyIsExact(inflight[s].req)
           /\ inflight[s].req.body.parse = "ok"
           /\ inflight[s].req.body.value.t # "obj")
          => inflight[s].resp.code = 500 /\ inflight[s].ran = "none"
    /\ \A s \in CallsWithAction("deploy") \cup CallsWithAction("code_review") :
          (SentData(s) # Absent /\ SentData(s).t # "obj") => inflight[s].resp.code = 500
    /\ \A s \in CallsWithAction("create_agent") :
          SentData(s) \in {JNull, JBool(FALSE), JNum(0), JStr(""), JList(<<>>)}
          => /\ inflight[s].resp.code = 200
             /\ inflight[s].resp.body.status = "success"
             /\ inflight[s].resp.body.config = JObj(<<>>)

C10_Witness ==
    \E s \in CallsWithAction("deploy") : SentData(s) = JNull /\ inflight[s].resp.code = 500

(* create_agent with data 0 *)
C10_WitnessFalsy ==
    \E s \in CallsWithAction("create_agent") : SentData(s) = JNum(0) /\ inflight[s].resp.code = 200

====
